---- MODULE Spec2Model ----
(***************************************************************************)
(* Model of the onnxruntime-web tutorial app: the image -> tensor          *)
(* preprocessing (processImage / imageDataToTensor), the decoder           *)
(* (argMax / indexOfMax) and the request pipeline around the inference     *)
(* engine (file-in onchange, onLoadImage, handleImage, run, the periodic   *)
(* status refresh).                                                        *)
(*                                                                         *)
(* Two versions of the script are in the repository: src/unnamed/part_001  *)
(* (with isRunning / predictedClass and the status refresh) and            *)
(* src/src/js/main.js (the earlier one, which writes target.innerHTML      *)
(* directly).  Definitions of the earlier one carry the suffix _mainjs.    *)
(*                                                                         *)
(* JavaScript values:                                                      *)
(*   - a byte of a Uint8ClampedArray is an integer 0..255; reading past    *)
(*     the end of an array gives undefined, modelled as JsUndefined = -1;  *)
(*   - a float is the exact quotient <<num, den>>; NaN is <<0, 0>>.        *)
(*     (Float32 rounding is monotone and exact at 0 and 1, so order and    *)
(*     the bounds 0 and 1 are those of the exact quotients.)               *)
(*   - arrays are sequences; At(a, i) is the JavaScript a[i] (0-based).    *)
(***************************************************************************)
EXTENDS Integers, Sequences, FiniteSets, TLC

\* ------------------------------------------------------------------------
\* Bounds of the model
\* ------------------------------------------------------------------------

\* WIDTH is 224 in the source (part_001:7, main.js:7); the model scales the
\* target resolution down so that buffers can be enumerated.
WIDTH == 2

\* number of file-in change events (requests) the model follows
MaxRequests == 2

\* decoder inputs: vectors of 1..MaxOut scores taken from 0..MaxScore
MaxOut == 4

MaxScore == 2

\* resizer inputs: images of 1..MaxImg by 1..MaxImg pixels
MaxImg == 3

VARIABLES
    \* --- the page (part_001) ---
    isRunning,       \* part_001:14
    predictedClass,  \* part_001:13
    target,          \* innerHTML of the element "target"
    canvasImage,     \* request whose resized canvas the element "canvas-image" shows
    imgPending,      \* request whose data URL the element "input-image" is loading
    pc,              \* pc[r]: where request r is
    file,            \* file[r]: the image of the file selected for request r
    inputTensor,     \* inputTensor[r]: the argument of run
    output,          \* output[r]: results.output1.data
    \* --- imageDataToTensor called on a buffer ---
    bufIn, tensorOut, tensorOut_mainjs, consoleError,
    imageData,            \* main.js:12  the module-level variable
    tensorAlone_mainjs,   \* result of main.js's imageDataToTensor called on its own
    \* --- argMax / indexOfMax called on a vector ---
    vecIn, argMaxOut, indexOfMaxOut,
    \* --- processImage called on an image ---
    srcImg, resized

pageVars == <<isRunning, predictedClass, target, canvasImage, imgPending,
              pc, file, inputTensor, output>>

builderVars == <<bufIn, tensorOut, tensorOut_mainjs, consoleError,
                 imageData, tensorAlone_mainjs>>

decoderVars == <<vecIn, argMaxOut, indexOfMaxOut>>

resizerVars == <<srcImg, resized>>

\* the variables of the three function-level harnesses
harnessVars == <<builderVars, decoderVars, resizerVars>>

vars == <<pageVars, harnessVars>>

\* ------------------------------------------------------------------------
\* Global constants (part_001:7-11)
\* ------------------------------------------------------------------------

DIMS == <<1, 3, WIDTH, WIDTH>>

MAX_LENGTH == DIMS[1] * DIMS[2] * DIMS[3] * DIMS[4]

MAX_SIGNED_VALUE == 255

\* ------------------------------------------------------------------------
\* JavaScript values
\* ------------------------------------------------------------------------

JsUndefined == -1

NaN == <<0, 0>>

FloatZero == <<0, 1>>

\* a[i] of JavaScript: 0-based, undefined outside the array
At(a, i) == IF i >= 0 /\ i < Len(a) THEN a[i + 1] ELSE JsUndefined

\* the division left out
DivideBy_NotNormalised(v, d) == IF v = JsUndefined THEN NaN ELSE <<v, 1>>

\* v / 255.0 (part_001:92, main.js:98); undefined / 255.0 is NaN
DivideBy(v, d) == IF v = JsUndefined THEN NaN ELSE <<v, d>>

IsNaN(f) == f[2] = 0

\* equality and order of two floats given as quotients (false on NaN)
FloatEq(f, g) == ~IsNaN(f) /\ ~IsNaN(g) /\ f[1] * g[2] = g[1] * f[2]

FloatLe(f, g) == ~IsNaN(f) /\ ~IsNaN(g) /\ f[1] * g[2] <= g[1] * f[2]

\* ------------------------------------------------------------------------
\* imageDataToTensor, part_001:75-98
\* ------------------------------------------------------------------------

\* number of iterations of `for (i = 0; i < data.length; i += 4)`
LoopCount(data) == (Len(data) + 3) \div 4

\* the arrays R, G, B after the loop of part_001:79-84 (c = 0, 1, 2)
Channel(data, c) == [k \in 1..LoopCount(data) |-> At(data, 4 * (k - 1) + c)]

\* part_001:85  R.concat(G).concat(B)
TransposedData(data) == Channel(data, 0) \o Channel(data, 1) \o Channel(data, 2)

\* the output array allocated with the length of the input, new Float32Array(l)
Float32Data_LengthOfInput(transposedData) ==
    [i \in 1..Len(transposedData) |-> DivideBy(transposedData[i], MAX_SIGNED_VALUE)]

\* part_001:88-93: a zero-filled Float32Array(MAX_LENGTH); writes at an index
\* >= MAX_LENGTH of a typed array are ignored
Float32Data(transposedData) ==
    [i \in 1..MAX_LENGTH |->
        IF i <= Len(transposedData)
        THEN DivideBy(transposedData[i], MAX_SIGNED_VALUE)
        ELSE FloatZero]

\* new ort.Tensor("float32", float32Data, dims)
Tensor(float32Data, dims) == [type |-> "float32", data |-> float32Data, dims |-> dims]

\* the alpha bytes dropped but the pixels left interleaved (no transpose)
imageDataToTensor_Interleaved(data, dims) ==
    Tensor([i \in 1..MAX_LENGTH |->
               DivideBy(At(data, (i - 1) + ((i - 1) \div 3)), MAX_SIGNED_VALUE)], dims)

imageDataToTensor(data, dims) == Tensor(Float32Data(TransposedData(data)), dims)

\* ------------------------------------------------------------------------
\* imageDataToTensor, main.js:77-104.  The transposing loop reads the
\* module-level variable imageData, not the parameter data.
\* ------------------------------------------------------------------------

\* main.js:79  data.filter((v, i) => i % 4 != 3)
IndexedNotAlpha(p) == p[1] % 4 # 3

FilterAlpha(data) ==
    LET kept == SelectSeq([i \in 1..Len(data) |-> <<i - 1, data[i]>>], IndexedNotAlpha)
    IN  [j \in 1..Len(kept) |-> kept[j][2]]

\* main.js:80-82  the length check only logs
MismatchLogged(data) == MAX_LENGTH # Len(FilterAlpha(data))

\* main.js:86-90 loops over the module-level imageData (passed here as
\* moduleImageData), not over the parameter data
imageDataToTensor_mainjs(data, moduleImageData, dims) ==
    Tensor(Float32Data(TransposedData(moduleImageData)), dims)

\* ------------------------------------------------------------------------
\* argMax, part_001:100-110.  Scores are floats; only their order is used,
\* so the model takes them from 0..MaxScore.
\* ------------------------------------------------------------------------

RECURSIVE argMaxLoop(_, _, _, _)
argMaxLoop(arr, i, max, maxIndex) ==
    IF i < Len(arr)
    THEN IF At(arr, i) > max
         THEN argMaxLoop(arr, i + 1, At(arr, i), i)
         ELSE argMaxLoop(arr, i + 1, max, maxIndex)
    ELSE <<max, maxIndex>>

\* the scan with >= in place of >: the last maximal value wins
RECURSIVE argMaxLoop_GreaterEq(_, _, _, _)
argMaxLoop_GreaterEq(arr, i, max, maxIndex) ==
    IF i < Len(arr)
    THEN IF At(arr, i) >= max
         THEN argMaxLoop_GreaterEq(arr, i + 1, At(arr, i), i)
         ELSE argMaxLoop_GreaterEq(arr, i + 1, max, maxIndex)
    ELSE <<max, maxIndex>>

argMax_GreaterEq(arr) == argMaxLoop_GreaterEq(arr, 1, At(arr, 0), 0)

\* the scan without `max = arr[i]`: every element is compared with arr[0]
RECURSIVE argMaxLoop_MaxNotUpdated(_, _, _, _)
argMaxLoop_MaxNotUpdated(arr, i, max, maxIndex) ==
    IF i < Len(arr)
    THEN IF At(arr, i) > max
         THEN argMaxLoop_MaxNotUpdated(arr, i + 1, max, i)
         ELSE argMaxLoop_MaxNotUpdated(arr, i + 1, max, maxIndex)
    ELSE <<max, maxIndex>>

argMax_MaxNotUpdated(arr) == argMaxLoop_MaxNotUpdated(arr, 1, At(arr, 0), 0)

\* returns [max, maxIndex]
argMax(arr) == argMaxLoop(arr, 1, At(arr, 0), 0)

\* ------------------------------------------------------------------------
\* indexOfMax, main.js:106-120
\* ------------------------------------------------------------------------

Reverse(s) == [i \in 1..Len(s) |-> s[Len(s) + 1 - i]]

RECURSIVE indexOfMaxLoop(_, _, _, _, _)
indexOfMaxLoop(arr, i, max, maxIndex, sorted) ==
    IF i < Len(arr)
    THEN IF At(arr, i) > max
         THEN indexOfMaxLoop(arr, i + 1, At(arr, i), i, Append(sorted, i))
         ELSE indexOfMaxLoop(arr, i + 1, max, maxIndex, sorted)
    ELSE <<maxIndex, Reverse(sorted)>>

\* returns [maxIndex, sorted.reverse()]
indexOfMax(arr) == indexOfMaxLoop(arr, 1, At(arr, 0), 0, <<>>)

\* ------------------------------------------------------------------------
\* processImage, part_001:63-73 (resizeImage, main.js:65-75).
\* An image is [width, height, pix] with pix[y][x] (1-based) an RGBA pixel.
\* ------------------------------------------------------------------------

TransparentBlack == <<0, 0, 0, 0>>

\* part_001:67-68  canvas.width = width;
\* canvas.height = canvas.width * (img.height / img.width): the canvas
\* attribute is an unsigned long, the product is truncated towards zero (the
\* quotient is taken exactly; it is 0 for an image more than width times as
\* wide as it is high)
CanvasHeight(img, width) == (width * img.height) \div img.width

\* part_001:69  ctx.drawImage(img, 0, 0, canvas.width, canvas.height): the
\* image scaled to the whole canvas; the browser's interpolation is taken as
\* nearest neighbour.  The canvas is [width, height, pix], pix[<<x, y>>]
\* the pixel at column x, row y (0-based).
DrawImage(img, cw, ch) ==
    [width  |-> cw,
     height |-> ch,
     pix    |-> [q \in (0..(cw - 1)) \X (0..(ch - 1)) |->
                    img.pix[((q[2] * img.height) \div ch) + 1]
                           [((q[1] * img.width) \div cw) + 1]]]

\* ctx.getImageData(sx, sy, sw, sh).data: the row-major RGBA bytes of the
\* sw x sh rectangle at (sx, sy); pixels outside the canvas are transparent
\* black
GetImageData(canvas, sx, sy, sw, sh) ==
    [i \in 1..(sw * sh * 4) |->
        LET p == (i - 1) \div 4
            x == sx + (p % sw)
            y == sy + (p \div sw)
            pixel == IF x < canvas.width /\ y < canvas.height
                     THEN canvas.pix[<<x, y>>]
                     ELSE TransparentBlack
        IN  pixel[((i - 1) % 4) + 1]]

\* the whole canvas read back instead of the width x width region
processImage_WholeCanvas(img, width) ==
    GetImageData(DrawImage(img, width, CanvasHeight(img, width)), 0, 0,
                 width, CanvasHeight(img, width))

\* part_001:63-73
processImage(img, width) ==
    GetImageData(DrawImage(img, width, CanvasHeight(img, width)), 0, 0, width, width)

\* ========================================================================
\* imageDataToTensor applied to a pixel buffer
\* ========================================================================

Red == <<255, 0, 0, 255>>

Teal == <<51, 102, 204, 153>>

Grey == <<128, 128, 128, 255>>

BufferPalette == {Red, Teal}

\* the RGBA bytes of a sequence of pixels
Flatten(pixels) ==
    [i \in 1..(4 * Len(pixels)) |-> pixels[((i - 1) \div 4) + 1][((i - 1) % 4) + 1]]

\* buffers of 0..WIDTH*WIDTH+1 whole pixels, followed by 0..3 bytes of a
\* further pixel
Buffers ==
    {Flatten(ps) \o SubSeq(Teal, 1, k) :
        ps \in UNION {[1..n -> BufferPalette] : n \in 0..(WIDTH * WIDTH + 1)},
        k \in 0..3}

NoTensor == [type |-> "none", data |-> <<>>, dims |-> <<>>]

\* main.js:12  `let imageData;` leaves the variable undefined (a marker
\* that is no byte array)
ImageDataUnassigned == <<JsUndefined>>

\* what imageData can hold: nothing yet, or the WIDTH x WIDTH buffer of the
\* image resized last (main.js:56)
ModuleStates ==
    {ImageDataUnassigned} \cup
    {Flatten([p \in 1..(WIDTH * WIDTH) |-> colour]) : colour \in BufferPalette}

\* imageData.length of main.js:86 on undefined throws
ThrownTypeError == [type |-> "TypeError", data |-> <<>>, dims |-> <<>>]

BuilderIdle ==
    /\ bufIn = <<>>
    /\ tensorOut = NoTensor
    /\ tensorOut_mainjs = NoTensor
    /\ consoleError = FALSE
    /\ imageData = ImageDataUnassigned
    /\ tensorAlone_mainjs = NoTensor

BuilderInit ==
    /\ bufIn \in Buffers
    /\ tensorOut = NoTensor
    /\ tensorOut_mainjs = NoTensor
    /\ consoleError = FALSE
    /\ imageData \in ModuleStates
    /\ tensorAlone_mainjs = NoTensor

\* part_001:59  imageDataToTensor(resizedImageData, DIMS)
CallImageDataToTensor ==
    /\ tensorOut = NoTensor
    /\ tensorOut' = imageDataToTensor(bufIn, DIMS)
    /\ UNCHANGED <<bufIn, tensorOut_mainjs, consoleError, imageData, tensorAlone_mainjs>>
    /\ UNCHANGED <<pageVars, decoderVars, resizerVars>>

\* main.js:56-59  imageData = resizeImage(...); imageDataToTensor(imageData, DIMS)
CallImageDataToTensor_mainjs ==
    /\ tensorOut_mainjs = NoTensor
    /\ imageData' = bufIn
    /\ tensorOut_mainjs' = imageDataToTensor_mainjs(bufIn, imageData', DIMS)
    /\ consoleError' = MismatchLogged(bufIn)
    /\ UNCHANGED <<bufIn, tensorOut, tensorAlone_mainjs>>
    /\ UNCHANGED <<pageVars, decoderVars, resizerVars>>

\* main.js:77-104  imageDataToTensor(data, DIMS) called on its own, with the
\* module-level imageData as it is
CallImageDataToTensorAlone_mainjs ==
    /\ tensorAlone_mainjs = NoTensor
    /\ tensorAlone_mainjs' =
          IF imageData = ImageDataUnassigned
          THEN ThrownTypeError
          ELSE imageDataToTensor_mainjs(bufIn, imageData, DIMS)
    /\ consoleError' = MismatchLogged(bufIn)
    /\ UNCHANGED <<bufIn, tensorOut, tensorOut_mainjs, imageData>>
    /\ UNCHANGED <<pageVars, decoderVars, resizerVars>>

\* ========================================================================
\* argMax / indexOfMax applied to an output vector
\* ========================================================================

Vectors == UNION {[1..n -> 0..MaxScore] : n \in 1..MaxOut}

DecoderIdle ==
    /\ vecIn = <<>>
    /\ argMaxOut = <<>>
    /\ indexOfMaxOut = <<>>

DecoderInit ==
    /\ vecIn \in Vectors
    /\ argMaxOut = <<>>
    /\ indexOfMaxOut = <<>>

\* part_001:119  argMax(results.output1.data); the vector can be decoded any
\* number of times, argMax writes nothing but its locals
CallArgMax ==
    /\ argMaxOut' = argMax(vecIn)
    /\ UNCHANGED <<vecIn, indexOfMaxOut>>
    /\ UNCHANGED <<pageVars, builderVars, resizerVars>>

\* the in-place reverse() of main.js:119 applied to arr instead of sorted
CallIndexOfMax_InputReversed ==
    /\ indexOfMaxOut' = indexOfMax(vecIn)
    /\ vecIn' = Reverse(vecIn)
    /\ UNCHANGED argMaxOut
    /\ UNCHANGED <<pageVars, builderVars, resizerVars>>

\* main.js:132  indexOfMax(results.output1.data); sorted.reverse() reverses
\* the local array, not arr
CallIndexOfMax ==
    /\ indexOfMaxOut' = indexOfMax(vecIn)
    /\ UNCHANGED <<vecIn, argMaxOut>>
    /\ UNCHANGED <<pageVars, builderVars, resizerVars>>

\* ========================================================================
\* processImage applied to an image
\* ========================================================================

ImagePalette == <<Red, Teal, Grey>>

\* the w x h images whose pixel at column x, row y is colour
\* (a*x + b*y + c) mod 3 of the palette, for every a, b, c in 0..2
ImagesOf(w, h) ==
    {[width |-> w, height |-> h,
      pix |-> [y \in 1..h |-> [x \in 1..w |-> ImagePalette[((a * x + b * y + c) % 3) + 1]]]] :
        a \in 0..2, b \in 0..2, c \in 0..2}

Images == UNION {ImagesOf(w, h) : w \in 1..MaxImg, h \in 1..MaxImg}

NoImage == [width |-> 0, height |-> 0, pix |-> <<>>]

ResizerIdle ==
    /\ srcImg = NoImage
    /\ resized = <<>>

ResizerInit ==
    /\ srcImg \in Images
    /\ resized = <<>>

\* part_001:58  processImage(img, targetWidth)
CallProcessImage ==
    /\ resized = <<>>
    /\ resized' = processImage(srcImg, WIDTH)
    /\ UNCHANGED srcImg
    /\ UNCHANGED <<pageVars, builderVars, decoderVars>>

\* ========================================================================
\* The page, part_001: one request per change event of the file input
\* ========================================================================

Requests == 1..MaxRequests

\* part_001:11  the class-label table (imagenet_classes.json), shortened
classes == <<"tench", "goldfish">>

\* results.output1.data: one score per class; the engine is a black box
Outputs == [1..Len(classes) -> 0..1]

\* the images of the files a user selects
RedImage == [width |-> 1, height |-> 1, pix |-> <<<<Red>>>>]

WideImage == [width |-> 2, height |-> 1, pix |-> <<<<Teal, Grey>>>>]

Files == {RedImage, WideImage}

\* part_001:13  `let predictedClass;` leaves the variable undefined
NotAssigned == "<not assigned>"

\* `${v}` of a template literal
TemplateString(v) == IF v = NotAssigned THEN "undefined" ELSE v

\* part_001:121  `${classes[maxIndex]}`
ClassLabel(maxIndex) ==
    IF maxIndex < Len(classes) THEN classes[maxIndex + 1] ELSE "undefined"

PageIdle ==
    /\ isRunning = FALSE
    /\ predictedClass = NotAssigned
    /\ target = [kind |-> "initial", text |-> ""]
    /\ canvasImage = 0
    /\ imgPending = 0
    /\ pc = [r \in Requests |-> "idle"]
    /\ file = [r \in Requests |-> NoImage]
    /\ inputTensor = [r \in Requests |-> NoTensor]
    /\ output = [r \in Requests |-> <<>>]

\* part_001:23-33  file-in onchange; f = NoImage is a change event with an
\* empty file list.  Change events arrive in the order of the request ids.
OnChange(r, f) ==
    /\ pc[r] = "idle"
    /\ \A q \in 1..(r - 1) : pc[q] # "idle"
    /\ IF f # NoImage
       THEN /\ isRunning' = TRUE
            /\ pc' = [pc EXCEPT ![r] = "reading"]
            /\ file' = [file EXCEPT ![r] = f]
       ELSE /\ pc' = [pc EXCEPT ![r] = "nofile"]
            /\ UNCHANGED <<isRunning, file>>
    /\ UNCHANGED <<predictedClass, target, canvasImage, imgPending, inputTensor, output>>
    /\ UNCHANGED harnessVars

\* part_001:30, 50-54  fileReader.onload -> onLoadImage: img.src is replaced,
\* which abandons a load of the element that is still pending
FileReaderLoad(r) ==
    /\ pc[r] = "reading"
    /\ pc' = [q \in Requests |->
                IF q = r THEN "decoding"
                ELSE IF q = imgPending THEN "superseded"
                ELSE pc[q]]
    /\ imgPending' = r
    /\ UNCHANGED <<isRunning, predictedClass, target, canvasImage, file, inputTensor, output>>
    /\ UNCHANGED harnessVars

\* part_001:29-31  the read fails: no onerror handler is installed
FileReaderError(r) ==
    /\ pc[r] = "reading"
    /\ pc' = [pc EXCEPT ![r] = "readFailed"]
    /\ UNCHANGED <<isRunning, predictedClass, target, canvasImage, imgPending,
                   file, inputTensor, output>>
    /\ UNCHANGED harnessVars

\* run without the await of part_001:114: session.run is called at once
ImageLoad_LoadNotAwaited(r) ==
    /\ pc[r] = "decoding"
    /\ imgPending = r
    /\ LET resizedImageData == processImage(file[r], WIDTH)
       IN  inputTensor' = [inputTensor EXCEPT ![r] = imageDataToTensor(resizedImageData, DIMS)]
    /\ canvasImage' = r
    /\ imgPending' = 0
    /\ pc' = [pc EXCEPT ![r] = "running"]
    /\ UNCHANGED <<isRunning, predictedClass, target, file, output>>
    /\ UNCHANGED harnessVars

\* part_001:52, 56-61, 112-114  img.onload -> handleImage: processImage,
\* imageDataToTensor, then run up to its first await
ImageLoad(r) ==
    /\ pc[r] = "decoding"
    /\ imgPending = r
    /\ LET resizedImageData == processImage(file[r], WIDTH)
       IN  inputTensor' = [inputTensor EXCEPT ![r] = imageDataToTensor(resizedImageData, DIMS)]
    /\ canvasImage' = r
    /\ imgPending' = 0
    /\ pc' = [pc EXCEPT ![r] = "loading"]
    /\ UNCHANGED <<isRunning, predictedClass, target, file, output>>
    /\ UNCHANGED harnessVars

\* part_001:52-53  the data URL does not decode: no onerror handler is installed
ImageError(r) ==
    /\ pc[r] = "decoding"
    /\ imgPending = r
    /\ imgPending' = 0
    /\ pc' = [pc EXCEPT ![r] = "decodeFailed"]
    /\ UNCHANGED <<isRunning, predictedClass, target, canvasImage, file, inputTensor, output>>
    /\ UNCHANGED harnessVars

\* a load that never resolves once a request has failed (a failed session
\* kept and reused)
CreateResolve_FailureKept(r) ==
    /\ pc[r] = "loading"
    /\ \A q \in Requests : pc[q] # "failed"
    /\ pc' = [pc EXCEPT ![r] = "running"]
    /\ UNCHANGED <<isRunning, predictedClass, target, canvasImage, imgPending,
                   file, inputTensor, output>>
    /\ UNCHANGED harnessVars

\* part_001:114-118  InferenceSession.create resolves; run goes on to its
\* second await, session.run(feeds)
CreateResolve(r) ==
    /\ pc[r] = "loading"
    /\ pc' = [pc EXCEPT ![r] = "running"]
    /\ UNCHANGED <<isRunning, predictedClass, target, canvasImage, imgPending,
                   file, inputTensor, output>>
    /\ UNCHANGED harnessVars

\* a catch block that also clears the stored result
CreateReject_ResultCleared(r) ==
    /\ pc[r] = "loading"
    /\ isRunning' = FALSE
    /\ predictedClass' = NotAssigned
    /\ pc' = [pc EXCEPT ![r] = "failed"]
    /\ UNCHANGED <<target, canvasImage, imgPending, file, inputTensor, output>>
    /\ UNCHANGED harnessVars

\* part_001:114, 123-126  InferenceSession.create rejects
CreateReject(r) ==
    /\ pc[r] = "loading"
    /\ isRunning' = FALSE
    /\ pc' = [pc EXCEPT ![r] = "failed"]
    /\ UNCHANGED <<predictedClass, target, canvasImage, imgPending, file, inputTensor, output>>
    /\ UNCHANGED harnessVars

\* the result of argMax destructured in the wrong order: the score is used
\* as the index
RunResolve_ScoreAsIndex(r, out) ==
    /\ pc[r] = "running"
    /\ output' = [output EXCEPT ![r] = out]
    /\ predictedClass' = ClassLabel(argMax(out)[1])
    /\ isRunning' = FALSE
    /\ pc' = [pc EXCEPT ![r] = "done"]
    /\ UNCHANGED <<target, canvasImage, imgPending, file, inputTensor>>
    /\ UNCHANGED harnessVars

\* part_001:118-122  session.run resolves with the output vector out
RunResolve(r, out) ==
    /\ pc[r] = "running"
    /\ output' = [output EXCEPT ![r] = out]
    /\ predictedClass' = ClassLabel(argMax(out)[2])
    /\ isRunning' = FALSE
    /\ pc' = [pc EXCEPT ![r] = "done"]
    /\ UNCHANGED <<target, canvasImage, imgPending, file, inputTensor>>
    /\ UNCHANGED harnessVars

\* the catch block without `isRunning = false`
RunReject_BusyKept(r) ==
    /\ pc[r] = "running"
    /\ pc' = [pc EXCEPT ![r] = "failed"]
    /\ UNCHANGED <<isRunning, predictedClass, target, canvasImage, imgPending,
                   file, inputTensor, output>>
    /\ UNCHANGED harnessVars

\* part_001:118, 123-126  session.run rejects
RunReject(r) ==
    /\ pc[r] = "running"
    /\ isRunning' = FALSE
    /\ pc' = [pc EXCEPT ![r] = "failed"]
    /\ UNCHANGED <<predictedClass, target, canvasImage, imgPending, file, inputTensor, output>>
    /\ UNCHANGED harnessVars

\* part_001:36-44  what the status refresh writes to target.innerHTML
Render(running, predicted) ==
    IF running
    THEN [kind |-> "loading", text |-> ""]
    ELSE IF predicted # "undefined"
         THEN [kind |-> "label", text |-> TemplateString(predicted)]
         ELSE [kind |-> "empty", text |-> ""]

\* part_001:36-44  the setInterval callback
Refresh ==
    /\ target' = Render(isRunning, predictedClass)
    /\ UNCHANGED <<isRunning, predictedClass, canvasImage, imgPending,
                   pc, file, inputTensor, output>>
    /\ UNCHANGED harnessVars

\* ========================================================================
\* Specifications
\* ========================================================================

\* the page
Init == PageIdle /\ BuilderIdle /\ DecoderIdle /\ ResizerIdle

EngineSettles(r) ==
    \/ CreateResolve(r)
    \/ CreateReject(r)
    \/ \E out \in Outputs : RunResolve(r, out)
    \/ RunReject(r)

Next ==
    \/ \E r \in Requests, f \in Files \cup {NoImage} : OnChange(r, f)
    \/ \E r \in Requests : FileReaderLoad(r)
    \/ \E r \in Requests : FileReaderError(r)
    \/ \E r \in Requests : ImageLoad(r)
    \/ \E r \in Requests : ImageError(r)
    \/ \E r \in Requests : CreateResolve(r)
    \/ \E r \in Requests : CreateReject(r)
    \/ \E r \in Requests, out \in Outputs : RunResolve(r, out)
    \/ \E r \in Requests : RunReject(r)
    \/ Refresh

Spec == Init /\ [][Next]_vars

\* the engine settles each call it was given (spec.md 4.3: both operations
\* are asynchronous and resolve or fail)
FairSpec == Spec /\ \A r \in Requests : WF_vars(EngineSettles(r))

\* imageDataToTensor on every buffer of Buffers
BuilderSpecInit == PageIdle /\ BuilderInit /\ DecoderIdle /\ ResizerIdle

BuilderNext ==
    \/ CallImageDataToTensor
    \/ CallImageDataToTensor_mainjs
    \/ CallImageDataToTensorAlone_mainjs

BuilderSpec == BuilderSpecInit /\ [][BuilderNext]_vars

\* argMax and indexOfMax on every vector of Vectors
DecoderSpecInit == PageIdle /\ BuilderIdle /\ DecoderInit /\ ResizerIdle

DecoderNext == CallArgMax \/ CallIndexOfMax

DecoderSpec == DecoderSpecInit /\ [][DecoderNext]_vars

\* processImage on every image of Images
ResizerSpecInit == PageIdle /\ BuilderIdle /\ DecoderIdle /\ ResizerInit

ResizerNext == CallProcessImage

ResizerSpec == ResizerSpecInit /\ [][ResizerNext]_vars

\* ========================================================================
\* Properties of imageDataToTensor (BuilderSpec)
\* ========================================================================

\* the buffer holds exactly WIDTH x WIDTH RGBA pixels
FullBuffer(buf) == Len(buf) = WIDTH * WIDTH * 4

\* tensor t holds, plane by plane, the R, G and B bytes of buf over 255
ChannelMajor(t, buf) ==
    /\ Len(t.data) = 3 * WIDTH * WIDTH
    /\ \A c \in 0..2, y \in 0..(WIDTH - 1), x \in 0..(WIDTH - 1) :
          FloatEq(At(t.data, c * WIDTH * WIDTH + y * WIDTH + x),
                  <<At(buf, 4 * (y * WIDTH + x) + c), 255>>)

\* C1: for a buffer of WIDTH*WIDTH*4 bytes, the tensor is channel-major: the
\* value at c*W*W + y*W + x is byte c of pixel (x, y) over 255, for c = 0
\* (r), 1 (g), 2 (b); these indexes are the whole tensor, so no alpha byte
\* is in it.  Both versions of imageDataToTensor.
C1_ChannelMajor ==
    FullBuffer(bufIn) =>
        /\ tensorOut # NoTensor => ChannelMajor(tensorOut, bufIn)
        /\ tensorOut_mainjs # NoTensor => ChannelMajor(tensorOut_mainjs, bufIn)

One == <<255, 255>>

\* a solid red image gives W*W ones followed by 2*W*W zeros
C1_Witness ==
    /\ bufIn = Flatten([p \in 1..(WIDTH * WIDTH) |-> Red])
    /\ tensorOut # NoTensor
    /\ tensorOut_mainjs = tensorOut
    /\ tensorOut.data = [i \in 1..(3 * WIDTH * WIDTH) |->
                            IF i <= WIDTH * WIDTH THEN One ELSE <<0, 255>>]

InUnitInterval(f) == FloatLe(FloatZero, f) /\ FloatLe(f, <<1, 1>>)

LengthAndRange(t) ==
    /\ Len(t.data) = 3 * WIDTH * WIDTH
    /\ \A i \in 1..Len(t.data) : InUnitInterval(t.data[i])

\* C2: for a buffer of WIDTH*WIDTH*4 bytes, the tensor has exactly 3*W*W
\* values and each lies in [0, 1].
C2_LengthAndRange ==
    FullBuffer(bufIn) =>
        /\ tensorOut # NoTensor => LengthAndRange(tensorOut)
        /\ tensorOut_mainjs # NoTensor => LengthAndRange(tensorOut_mainjs)

\* a full buffer with bytes strictly between 0 and 255 has been converted
C2_Witness ==
    /\ FullBuffer(bufIn)
    /\ \E i \in 1..Len(bufIn) : bufIn[i] = 102
    /\ tensorOut # NoTensor
    /\ tensorOut_mainjs # NoTensor
    /\ \E i \in 1..Len(tensorOut.data) : tensorOut.data[i] = <<102, 255>>

\* C5: a buffer whose length after alpha removal differs from 3*W*W makes the
\* tensor builder fail; no tensor is produced from it.
C5_MismatchProducesNoTensor ==
    Len(FilterAlpha(bufIn)) # 3 * WIDTH * WIDTH =>
        /\ tensorOut = NoTensor
        /\ tensorOut_mainjs = NoTensor

\* ========================================================================
\* Properties of argMax / indexOfMax (DecoderSpec)
\* ========================================================================

MaxOf(v) == CHOOSE m \in {v[i] : i \in 1..Len(v)} : \A i \in 1..Len(v) : v[i] <= m

\* the lowest 0-based index holding the maximal value
FirstMaxIndex(v) ==
    CHOOSE i \in 0..(Len(v) - 1) :
        /\ v[i + 1] = MaxOf(v)
        /\ \A j \in 0..(i - 1) : v[j + 1] # MaxOf(v)

\* C3: on a non-empty vector the decoder returns the lowest index holding
\* the maximal value (first occurrence wins on ties).  argMax and indexOfMax.
C3_FirstMaxWins ==
    /\ argMaxOut # <<>> => argMaxOut[2] = FirstMaxIndex(vecIn)
    /\ indexOfMaxOut # <<>> => indexOfMaxOut[1] = FirstMaxIndex(vecIn)

\* [0.1, 0.9, 0.9, 0.2] gives index 1, not 2
C3_Witness ==
    /\ vecIn = <<0, 2, 2, 1>>
    /\ argMaxOut # <<>> /\ argMaxOut[2] = 1
    /\ indexOfMaxOut # <<>> /\ indexOfMaxOut[1] = 1

\* C4: the index argMax returns is within the vector, its element is >=
\* every element, the score returned is that element, and a single-element
\* vector gives index 0.
C4_IndexInRangeAndMaximal ==
    argMaxOut # <<>> =>
        LET idx == argMaxOut[2]
        IN  /\ 0 <= idx /\ idx < Len(vecIn)
            /\ \A j \in 1..Len(vecIn) : vecIn[idx + 1] >= vecIn[j]
            /\ argMaxOut[1] = vecIn[idx + 1]
            /\ Len(vecIn) = 1 => idx = 0

\* a single-element vector has been decoded to index 0 and its own score
C4_Witness ==
    /\ Len(vecIn) = 1
    /\ argMaxOut = <<vecIn[1], 0>>

\* ========================================================================
\* Properties of processImage (ResizerSpec)
\* ========================================================================

\* pixel (x, y) of the source scaled to width WIDTH, transparent black below
\* the scaled image
ScaledPixel(img, x, y) ==
    LET ch == (WIDTH * img.height) \div img.width
    IN  IF y < ch
        THEN img.pix[((y * img.height) \div ch) + 1][((x * img.width) \div WIDTH) + 1]
        ELSE <<0, 0, 0, 0>>

\* C10: for every source image the resizer returns exactly W*W*4 bytes, the
\* W x W region at the origin of the canvas holding the image scaled to
\* width W, whether the scaled height is below, equal to or above W.
C10_ResizedIsSquare ==
    resized # <<>> =>
        /\ Len(resized) = WIDTH * WIDTH * 4
        /\ \A y \in 0..(WIDTH - 1), x \in 0..(WIDTH - 1), k \in 0..3 :
              At(resized, 4 * (y * WIDTH + x) + k) = ScaledPixel(srcImg, x, y)[k + 1]

\* an image whose scaled height is below W has been resized
C10_Witness ==
    /\ resized # <<>>
    /\ srcImg.width = 2 /\ srcImg.height = 1
    /\ CanvasHeight(srcImg, WIDTH) < WIDTH
    /\ Len(resized) = WIDTH * WIDTH * 4

\* ========================================================================
\* Properties of the page (Spec, FairSpec)
\* ========================================================================

\* requests for which a file was selected
Started == {r \in Requests : pc[r] \notin {"idle", "nofile"}}

\* request r is between its image selection and its end
InFlight(r) == pc[r] \in {"reading", "decoding", "loading", "running"}

NoneInFlight == \A r \in Requests : ~InFlight(r)

\* the request started last among those that completed with a result
LatestDone == CHOOSE r \in Requests :
    /\ pc[r] = "done"
    /\ \A q \in Requests : pc[q] = "done" => q <= r

\* C6: stale results are never kept: once the requests have ended, the
\* stored label is the result of the most recently started request that
\* completed, whatever the order in which the engine calls completed.
C6_LatestResultKept ==
    (NoneInFlight /\ \E r \in Requests : pc[r] = "done") =>
        predictedClass = ClassLabel(argMax(output[LatestDone])[2])

\* C7: when the engine fails in a request, the status the display is given
\* is an error state, neither the busy indicator nor a result label.
C7_EngineFailureShown ==
    [][\A r \in Requests :
          (pc[r] \in {"loading", "running"} /\ pc'[r] = "failed") =>
              Render(isRunning', predictedClass').kind \notin {"loading", "label"}]_vars

\* C8: every failure of a request leaves the page non-busy: when a request
\* has failed at any stage (file read, image decode, engine load, engine
\* run) and no request is in flight, isRunning is false.
C8_FailureLeavesNonBusy ==
    (NoneInFlight /\ \E r \in Requests : pc[r] \in {"readFailed", "decodeFailed", "failed"})
        => ~isRunning

\* C9: the status follows Idle -> Busy -> Idle-with-result / Idle-with-error.
\* With a single request: busy from the image selection until the engine
\* settles, non-busy afterwards; the status becomes busy only by an image
\* selection; and a request whose image loaded ends (result or error) once
\* the engine settles its calls.
C9_StatusMachine ==
    /\ [](Started = {} => ~isRunning)
    /\ [](\A r \in Requests :
            Started = {r} =>
                /\ InFlight(r) => isRunning
                /\ pc[r] \in {"done", "failed"} => ~isRunning)
    /\ [][(~isRunning /\ isRunning') =>
              \E r \in Requests : pc[r] = "idle" /\ pc'[r] = "reading"]_vars
    /\ \A r \in Requests :
          (pc[r] = "loading") ~> (pc[r] \in {"done", "failed"} /\ ~isRunning)

\* a single request has gone through Busy to Idle-with-result and the
\* refresh shows its label
C9_Witness ==
    /\ Started = {1}
    /\ pc[1] = "done"
    /\ ~isRunning
    /\ target = [kind |-> "label", text |-> predictedClass]

\* the label of the highest score of output vector v (first on ties)
LabelOf(v) == classes[FirstMaxIndex(v) + 1]

\* C11: when a request's engine call succeeds, the stored result becomes
\* exactly classes[argmax(output vector)] of that request and the busy flag
\* is cleared in the same step; nothing of an earlier label is kept.
C11_ResultOverwritten ==
    [][\A r \in Requests :
          (pc[r] = "running" /\ pc'[r] = "done") =>
              /\ predictedClass' = LabelOf(output'[r])
              /\ ~isRunning']_vars

\* two requests have completed with different labels and the label stored
\* is the second one's
C11_Witness ==
    /\ pc[1] = "done" /\ pc[2] = "done"
    /\ LabelOf(output[1]) # LabelOf(output[2])
    /\ predictedClass = LabelOf(output[2])
    /\ ~isRunning

\* the stages of a request, in order
StageRank(stage) ==
    CASE stage = "idle" -> 0
      [] stage = "reading" -> 1
      [] stage = "decoding" -> 2
      [] stage = "loading" -> 3
      [] stage = "running" -> 4
      [] OTHER -> 5

\* C12: within a request the stages run strictly forward, one at a time:
\* resize and tensor build (in the step that enters the engine load), then
\* engine load, then engine run, then decode and result write.  The task
\* waits at exactly two points, the load and the run; session.run starts
\* only from a resolved load, so at most once per request; the result slot
\* is written only by a step in which session.run resolves.
C12_StagesForward ==
    [][/\ \A r \in Requests :
            pc'[r] # pc[r] =>
                /\ StageRank(pc'[r]) > StageRank(pc[r])
                /\ StageRank(pc'[r]) < 5 => StageRank(pc'[r]) = StageRank(pc[r]) + 1
                /\ pc'[r] = "loading" <=> (inputTensor[r] = NoTensor /\ inputTensor'[r] # NoTensor)
                /\ pc'[r] = "done" => pc[r] = "running"
                /\ (pc'[r] = "failed") => pc[r] \in {"loading", "running"}
       /\ \A r \in Requests : inputTensor'[r] # inputTensor[r] => pc'[r] = "loading"
       /\ (predictedClass' # predictedClass \/ output' # output) =>
              \E r \in Requests : pc[r] = "running" /\ pc'[r] = "done"]_vars

\* a request has run through all its stages
C12_Witness ==
    /\ pc[1] = "done"
    /\ inputTensor[1] = imageDataToTensor(processImage(file[1], WIDTH), DIMS)
    /\ output[1] # <<>>
    /\ predictedClass = LabelOf(output[1])

\* C13: an engine failure is fatal only to its own request: a later request
\* that is loading can have its own load resolve, one that is running can
\* get any output, and when it completes it stores its own label and clears
\* the busy flag, as without the earlier failure.
C13_FailureIsLocal ==
    /\ [](\A r \in Requests :
            (\E q \in Requests : pc[q] = "failed") =>
                /\ pc[r] = "loading" => ENABLED CreateResolve(r)
                /\ pc[r] = "running" => \A out \in Outputs : ENABLED RunResolve(r, out))
    /\ [][\A r \in Requests :
            ((\E q \in Requests : pc[q] = "failed") /\ pc[r] = "running" /\ pc'[r] = "done") =>
                /\ predictedClass' = LabelOf(output'[r])
                /\ ~isRunning']_vars

\* request 1 failed in the engine and request 2, selected after it,
\* completed with its result
C13_Witness ==
    /\ pc[1] = "failed"
    /\ pc[2] = "done"
    /\ predictedClass = LabelOf(output[2])
    /\ ~isRunning

C15_BusyWhileAnyInFlight ==
    (\E r \in Requests : InFlight(r)) => isRunning

\* C16: when run fails (load or run rejects) the only page state it changes
\* is isRunning, which becomes false; predictedClass keeps its value, so the
\* next status refresh shows the label that was stored before, that of a
\* request that completed if there is one.
C16_FailureKeepsResult ==
    [][\A r \in Requests :
          (pc[r] \in {"loading", "running"} /\ pc'[r] = "failed") =>
              /\ ~isRunning'
              /\ predictedClass' = predictedClass
              /\ UNCHANGED <<target, canvasImage, imgPending, file, inputTensor, output>>
              /\ \A q \in Requests \ {r} : pc'[q] = pc[q]
              /\ Render(isRunning', predictedClass') =
                     [kind |-> "label", text |-> TemplateString(predictedClass)]
              /\ (\E q \in Requests : pc[q] = "done") =>
                     \E q \in Requests : pc[q] = "done" /\ predictedClass' = LabelOf(output[q])]_vars

\* request 1 completed, request 2 failed in the engine, and the refreshed
\* status shows request 1's label
C16_Witness ==
    /\ pc[1] = "done"
    /\ pc[2] = "failed"
    /\ ~isRunning
    /\ predictedClass = LabelOf(output[1])
    /\ target = [kind |-> "label", text |-> LabelOf(output[1])]

\* C17: whenever the status refresh changes the display, it shows the
\* loading indicator exactly when isRunning is true, a label only when a
\* classification has completed, and the empty status while no request has
\* been started (predictedClass never assigned).
C17_StatusShown ==
    [][target' # target =>
          /\ target'.kind = "loading" <=> isRunning
          /\ target'.kind = "label" => \E r \in Requests : pc[r] = "done"
          /\ Started = {} => target'.kind = "empty"]_vars

\* ========================================================================
\* imageDataToTensor on buffers of any length (BuilderSpec)
\* ========================================================================

\* the number of pixels the loop reads from buf (a trailing partial pixel
\* counts, its missing bytes read as undefined)
PixelsRead(buf) == (Len(buf) + 3) \div 4

\* byte b as a tensor value
Normalised(b) == IF b = JsUndefined THEN <<0, 0>> ELSE <<b, 255>>

\* the planes of buf packed at the front of MAX_LENGTH entries: plane c
\* starts at c*n for n pixels read; entries past the planes are 0, planes
\* past MAX_LENGTH are cut off
PackedPlanes(buf) ==
    LET n == PixelsRead(buf)
    IN  [i \in 1..(3 * WIDTH * WIDTH) |->
            IF i - 1 < 3 * n
            THEN Normalised(At(buf, 4 * ((i - 1) % n) + ((i - 1) \div n)))
            ELSE <<0, 1>>]

\* C18: the tensor imageDataToTensor(data, dims) returns is a function of
\* data only: whatever the module-level variables hold, it is the tensor of
\* the data passed in.  Both versions.
C18_FunctionOfData ==
    /\ tensorOut # NoTensor => tensorOut.data = PackedPlanes(bufIn)
    /\ tensorOut_mainjs # NoTensor => tensorOut_mainjs.data = PackedPlanes(bufIn)
    /\ tensorAlone_mainjs # NoTensor => tensorAlone_mainjs.data = PackedPlanes(bufIn)

\* C19: for a buffer of any length the tensor data has exactly MAX_LENGTH
\* entries: with fewer than W*W pixels the three planes are packed at the
\* front (plane c starts at c*n for n pixels) and the remaining entries are
\* 0; with more than W*W pixels the values past index MAX_LENGTH-1 are
\* dropped.  Both versions, main.js's as handleImageData calls it.
C19_PackedAtFront ==
    /\ tensorOut # NoTensor =>
          /\ Len(tensorOut.data) = 3 * WIDTH * WIDTH
          /\ tensorOut.data = PackedPlanes(bufIn)
    /\ tensorOut_mainjs # NoTensor =>
          /\ Len(tensorOut_mainjs.data) = 3 * WIDTH * WIDTH
          /\ tensorOut_mainjs.data = PackedPlanes(bufIn)

\* a buffer one pixel short has been converted: the green plane starts at
\* n = W*W-1 and the last three entries are 0
C19_Witness ==
    /\ Len(bufIn) = 4 * (WIDTH * WIDTH - 1)
    /\ bufIn[1] = 51
    /\ tensorOut # NoTensor
    /\ tensorOut_mainjs = tensorOut
    /\ tensorOut.data[WIDTH * WIDTH] = <<102, 255>>
    /\ \A i \in (3 * WIDTH * WIDTH - 2)..(3 * WIDTH * WIDTH) : tensorOut.data[i] = <<0, 1>>

====
